---- MODULE Spec2Model ----
(***************************************************************************)
(* Model of src/aipp/crud.py (the PRODUCTS repository: create_product,     *)
(* read_product, read_all_products, update_product, delete_product) and of *)
(* src/aipp/account.py (class Account).                                    *)
(*                                                                         *)
(* Every repository function is a sequence of steps on one caller's own    *)
(* connection.  A step is one driver call (connect, execute, commit,       *)
(* rollback), which either succeeds or raises, together with the           *)
(* straight-line code that follows it up to the next driver call; the      *)
(* finally block (conn.close()) is part of the step that leaves the        *)
(* function.  conn.close() is called once, on an open connection, where    *)
(* pyodbc does not raise.                                                  *)
(*                                                                         *)
(* The store is SQL Server seen through pyodbc with autocommit off: a      *)
(* statement's effect is pending on its session until commit, a commit     *)
(* that raises has committed nothing, rollback discards what is pending,   *)
(* closing a connection discards it too, and a row written by a pending    *)
(* statement is locked against other sessions.  Identity values are        *)
(* handed out at INSERT and never reused.                                  *)
(*                                                                         *)
(* A Python None is the empty sequence and a value v is <<v>>; prices are  *)
(* whole numbers.                                                          *)
(***************************************************************************)
EXTENDS Integers, Sequences, FiniteSets, TLC

VARIABLES
    procs,         \* the callers (threads) that issue repository calls
    table,         \* committed rows of PRODUCTS: pid -> [pname, qty, price]
    nextIdentity,  \* next value of the identity column pid
    sessions,      \* callers whose connection is open at the store
    pending,       \* per session: the uncommitted statement of its transaction
    lastIdentity,  \* per session: @@IDENTITY, the last identity it generated
    pc,            \* per caller: position inside the current call
    call,          \* per caller: the function called and its arguments
    conn,          \* per caller: the local variable conn
    rowcount,      \* per caller: cursor.rowcount of the last statement
    result,        \* per caller: the value returned, as a sequence
    raised,        \* per caller: an exception leaves the function
    pre,           \* per caller: committed table when the call started
    acquired,      \* per caller: connections this call acquired
    executed,      \* per caller: statements this call executed
    inserted,      \* per caller: pid of the row this call inserted (0: none)
    faulted,       \* per caller: a driver call raised during this call
    balance,       \* Account.balance
    acct           \* the last Account method called, its argument and outcome

crudVars == <<procs, table, nextIdentity, sessions, pending, lastIdentity, pc,
              call, conn, rowcount, result, raised, pre, acquired, executed,
              inserted, faulted>>
acctVars == <<balance, acct>>
vars == <<crudVars, acctVars>>

---------------------------------------------------------------------------
(* Bounds of the model *)

\* identity values the store hands out before the model stops creating
MaxId == 2
\* largest balance the account model follows
MaxBalance == 12
\* largest amount passed to deposit and withdraw
MaxAmount == 4

Ids == 1..MaxId
\* pids a caller may ask for (one not yet assigned has no row)
AskIds == Ids
Names == {"", "Laptop"}
Quantities == {0, 10}
Prices == {0, 999}
Amounts == (-1)..MaxAmount

None == <<>>
Some(v) == <<v>>
Opt(S) == {None} \cup {Some(v) : v \in S}

---------------------------------------------------------------------------
(* Python truthiness, as any([pname, qty, price]) applies it *)

TruthyStr(x) == x # None /\ x[1] # ""
TruthyNum(x) == x # None /\ x[1] # 0

\* crud.py:164  any([pname, qty, price])
AnyField(c) == TruthyStr(c.pname) \/ TruthyNum(c.qty) \/ TruthyNum(c.price)

\* at least one of the three keyword arguments differs from None
Supplied(c) == c.pname # None \/ c.qty # None \/ c.price # None

---------------------------------------------------------------------------
(* The store *)

NoCall == [fn |-> "none", pid |-> 0, pname |-> None, qty |-> None, price |-> None]
NoPending == [kind |-> "none", pid |-> 0, pname |-> None, qty |-> None, price |-> None]

\* a statement and its parameters
Stmt(kind, pid, c) ==
    [kind |-> kind, pid |-> pid, pname |-> c.pname, qty |-> c.qty, price |-> c.price]

Row(n, q, pr) == [pname |-> n, qty |-> q, price |-> pr]

\* SetFields with the columns chosen by truthiness (if pname: ... if qty: ...)
\* instead of "is not None": the fault C6 is tested against
SetFieldsTruthy(r, c) ==
    [pname |-> IF TruthyStr(c.pname) THEN c.pname[1] ELSE r.pname,
     qty   |-> IF TruthyNum(c.qty)   THEN c.qty[1]   ELSE r.qty,
     price |-> IF TruthyNum(c.price) THEN c.price[1] ELSE r.price]

\* UPDATE PRODUCTS SET <the columns whose argument is not None> (crud.py:175-187)
SetFields(r, c) ==
    [pname |-> IF c.pname # None THEN c.pname[1] ELSE r.pname,
     qty   |-> IF c.qty   # None THEN c.qty[1]   ELSE r.qty,
     price |-> IF c.price # None THEN c.price[1] ELSE r.price]

InsertRow(t, pid, c) ==
    [i \in DOMAIN t \cup {pid} |->
        IF i = pid THEN Row(c.pname[1], c.qty[1], c.price[1]) ELSE t[i]]

UpdateRows(t, pid, c) ==
    [i \in DOMAIN t |-> IF i = pid THEN SetFields(t[i], c) ELSE t[i]]

DeleteRows(t, pid) == [i \in DOMAIN t \ {pid} |-> t[i]]

\* the committed table once the session's pending statement is committed
Apply(t, pd) ==
    CASE pd.kind = "insert" -> InsertRow(t, pd.pid, pd)
      [] pd.kind = "update" -> UpdateRows(t, pd.pid, pd)
      [] pd.kind = "delete" -> DeleteRows(t, pd.pid)
      [] OTHER -> t

\* a row that another session's pending statement has written is locked
Locked(p, pid) == \E q \in sessions \ {p} : pending[q].kind # "none" /\ pending[q].pid = pid
AnyLocked(p) == \E q \in sessions \ {p} : pending[q].kind # "none"

\* Product with row[2] and row[3] exchanged: the fault C7 is tested against
ProductShifted(pid) == [pid |-> pid, pname |-> table[pid].pname,
                        qty |-> table[pid].price, price |-> table[pid].qty]

\* the product dict read_product and read_all_products build from a row
Product(pid) == [pid |-> pid, pname |-> table[pid].pname,
                 qty |-> table[pid].qty, price |-> table[pid].price]

RECURSIVE Products(_)
Products(S) ==
    IF S = {} THEN <<>>
    ELSE LET m == CHOOSE i \in S : \A j \in S : i <= j
         IN <<Product(m)>> \o Products(S \ {m})

---------------------------------------------------------------------------
(* Steps shared by the five functions *)

\* conn = None and the call begins
Begin(p, c) ==
    /\ pc[p] = "idle"
    /\ call' = [call EXCEPT ![p] = c]
    /\ pre' = [pre EXCEPT ![p] = table]
    /\ UNCHANGED <<procs, table, nextIdentity, sessions, pending,
                   lastIdentity, conn, rowcount, result, raised, acquired,
                   executed, inserted, faulted>>

\* a driver call raises: control goes to the except block
Raise(p) ==
    /\ pc' = [pc EXCEPT ![p] = "except"]
    /\ faulted' = [faulted EXCEPT ![p] = TRUE]

\* CloseIfConn with conn.close() at the end of the try block instead of in the
\* finally block: the fault C3 is tested against
CloseOnSuccess(p) ==
    IF conn[p] = "open" /\ ~faulted[p]
    THEN /\ sessions' = sessions \ {p}
         /\ pending' = [pending EXCEPT ![p] = NoPending]
         /\ lastIdentity' = [lastIdentity EXCEPT ![p] = None]
         /\ conn' = [conn EXCEPT ![p] = "closed"]
    ELSE UNCHANGED <<sessions, pending, lastIdentity, conn>>

\* if conn: conn.close()   (the session ends, and what it left pending with it)
CloseIfConn(p) ==
    IF conn[p] = "open"
    THEN /\ sessions' = sessions \ {p}
         /\ pending' = [pending EXCEPT ![p] = NoPending]
         /\ lastIdentity' = [lastIdentity EXCEPT ![p] = None]
         /\ conn' = [conn EXCEPT ![p] = "closed"]
    ELSE UNCHANGED <<sessions, pending, lastIdentity, conn>>

\* return v: the finally block runs and the caller has v
ReturnValue(p, v) ==
    /\ result' = [result EXCEPT ![p] = v]
    /\ CloseIfConn(p)
    /\ pc' = [pc EXCEPT ![p] = "done"]
    /\ UNCHANGED raised

\* an exception raised inside the except block: the finally block runs and the
\* exception leaves the function
Propagate(p) ==
    /\ raised' = [raised EXCEPT ![p] = TRUE]
    /\ CloseIfConn(p)
    /\ pc' = [pc EXCEPT ![p] = "done"]
    /\ UNCHANGED result

\* conn = get_connection(): pyodbc.connect returns a fresh connection, or raises
\* and get_connection re-raises, leaving conn None
GetConnection(p) ==
    /\ pc[p] = "connect"
    /\ \/ /\ sessions' = sessions \cup {p}
          /\ pending' = [pending EXCEPT ![p] = NoPending]
          /\ lastIdentity' = [lastIdentity EXCEPT ![p] = None]
          /\ conn' = [conn EXCEPT ![p] = "open"]
          /\ acquired' = [acquired EXCEPT ![p] = @ + 1]
          /\ pc' = [pc EXCEPT ![p] = "execute"]
          /\ UNCHANGED faulted
       \/ /\ Raise(p)
          /\ UNCHANGED <<sessions, pending, lastIdentity, conn, acquired>>
    /\ UNCHANGED <<procs, table, nextIdentity, call, rowcount, result,
                   raised, pre, executed, inserted>>

\* the committed table after conn.commit()
Committed(p) == Apply(table, pending[p])

\* except Exception: if conn: conn.rollback(); return failval.  A rollback that
\* raises leaves the function as an exception, after the finally block.
ExceptRollback(p, failval) ==
    /\ pc[p] = "except"
    /\ \/ ReturnValue(p, failval)
       \/ /\ conn[p] = "open"
          /\ Propagate(p)
    /\ UNCHANGED <<procs, table, nextIdentity, call, rowcount, pre,
                   acquired, executed, inserted, faulted>>

\* except Exception: return failval   (the read functions do not roll back)
ExceptReturn(p, failval) ==
    /\ pc[p] = "except"
    /\ ReturnValue(p, failval)
    /\ UNCHANGED <<procs, table, nextIdentity, call, rowcount, pre,
                   acquired, executed, inserted, faulted>>

\* the caller has the outcome; the function's locals are gone
Return(p) ==
    /\ pc[p] = "done"
    /\ pc' = [pc EXCEPT ![p] = "idle"]
    /\ call' = [call EXCEPT ![p] = NoCall]
    /\ conn' = [conn EXCEPT ![p] = "None"]
    /\ rowcount' = [rowcount EXCEPT ![p] = 0]
    /\ result' = [result EXCEPT ![p] = None]
    /\ raised' = [raised EXCEPT ![p] = FALSE]
    /\ pre' = [pre EXCEPT ![p] = <<>>]
    /\ acquired' = [acquired EXCEPT ![p] = 0]
    /\ executed' = [executed EXCEPT ![p] = 0]
    /\ inserted' = [inserted EXCEPT ![p] = 0]
    /\ faulted' = [faulted EXCEPT ![p] = FALSE]
    /\ UNCHANGED <<procs, table, nextIdentity, sessions, pending,
                   lastIdentity>>

---------------------------------------------------------------------------
(* create_product(pname, qty, price), crud.py:30-67 *)

CreateArgs(n, q, pr) ==
    [fn |-> "create", pid |-> 0, pname |-> Some(n), qty |-> Some(q), price |-> Some(pr)]

CreateCall(p) ==
    /\ p \in procs
    /\ nextIdentity <= MaxId
    /\ \E n \in Names, q \in Quantities, pr \in Prices : Begin(p, CreateArgs(n, q, pr))
    /\ pc' = [pc EXCEPT ![p] = "connect"]
    /\ UNCHANGED acctVars

\* the two calls of the example run (crud.py:252-253), issued by either caller
\* (prices in whole units)
Examples == {Row("Laptop", 10, 999), Row("Mouse", 50, 29)}

CreateExample(p) ==
    /\ p \in procs
    /\ nextIdentity <= MaxId
    /\ \E r \in Examples : Begin(p, CreateArgs(r.pname, r.qty, r.price))
    /\ pc' = [pc EXCEPT ![p] = "connect"]
    /\ UNCHANGED acctVars

CreateConnect(p) ==
    /\ p \in procs
    /\ call[p].fn = "create"
    /\ GetConnection(p)
    /\ UNCHANGED acctVars

\* cursor.execute("INSERT INTO PRODUCTS (pname, qty, price) VALUES (?, ?, ?)")
\* the store assigns the next identity to the new row
CreateInsert(p) ==
    /\ p \in procs
    /\ call[p].fn = "create"
    /\ pc[p] = "execute"
    /\ \/ /\ pending' = [pending EXCEPT ![p] = Stmt("insert", nextIdentity, call[p])]
          /\ nextIdentity' = nextIdentity + 1
          /\ lastIdentity' = [lastIdentity EXCEPT ![p] = Some(nextIdentity)]
          /\ inserted' = [inserted EXCEPT ![p] = nextIdentity]
          /\ rowcount' = [rowcount EXCEPT ![p] = 1]
          /\ pc' = [pc EXCEPT ![p] = "commit"]
          /\ UNCHANGED faulted
       \/ /\ Raise(p)
          /\ UNCHANGED <<pending, nextIdentity, lastIdentity, inserted, rowcount>>
    /\ executed' = [executed EXCEPT ![p] = @ + 1]
    /\ UNCHANGED <<procs, table, sessions, call, conn, result, raised,
                   pre, acquired, acctVars>>

\* conn.commit()
CreateCommit(p) ==
    /\ p \in procs
    /\ call[p].fn = "create"
    /\ pc[p] = "commit"
    /\ \/ /\ table' = Committed(p)
          /\ pending' = [pending EXCEPT ![p] = NoPending]
          /\ pc' = [pc EXCEPT ![p] = "identity"]
          /\ UNCHANGED faulted
       \/ /\ Raise(p)
          /\ UNCHANGED <<table, pending>>
    /\ UNCHANGED <<procs, nextIdentity, sessions, lastIdentity, call,
                   conn, rowcount, result, raised, pre, acquired, executed,
                   inserted, acctVars>>

\* SelectIdentity with the last identity generated on any session
\* (IDENT_CURRENT('PRODUCTS'), MAX(pid)): the fault C8 is tested against
SelectIdentCurrent(p) == IF nextIdentity > 1 THEN Some(nextIdentity - 1) ELSE None

\* SELECT @@IDENTITY: the last identity generated on this session
SelectIdentity(p) == lastIdentity[p]

\* cursor.execute("SELECT @@IDENTITY as pid"); pid = cursor.fetchone()[0];
\* return int(pid)   (int(None) raises TypeError)
CreateIdentity(p) ==
    /\ p \in procs
    /\ call[p].fn = "create"
    /\ pc[p] = "identity"
    /\ \/ /\ SelectIdentity(p) # None
          /\ ReturnValue(p, SelectIdentity(p))
          /\ UNCHANGED faulted
       \/ /\ Raise(p)
          /\ UNCHANGED <<result, raised, sessions, pending, lastIdentity, conn>>
    /\ executed' = [executed EXCEPT ![p] = @ + 1]
    /\ UNCHANGED <<procs, table, nextIdentity, call, rowcount, pre,
                   acquired, inserted, acctVars>>

CreateExcept(p) ==
    /\ p \in procs
    /\ call[p].fn = "create"
    /\ ExceptRollback(p, None)
    /\ UNCHANGED acctVars

---------------------------------------------------------------------------
(* read_product(pid), crud.py:70-108 *)

ReadCall(p) ==
    /\ p \in procs
    /\ \E pid \in AskIds : Begin(p, [NoCall EXCEPT !.fn = "read", !.pid = pid])
    /\ pc' = [pc EXCEPT ![p] = "connect"]
    /\ UNCHANGED acctVars

ReadConnect(p) ==
    /\ p \in procs
    /\ call[p].fn = "read"
    /\ GetConnection(p)
    /\ UNCHANGED acctVars

\* SELECT pid, pname, qty, price FROM PRODUCTS WHERE pid = ?  and the dict, or
\* None, made of the row fetched
ReadResult(pid) == IF pid \in DOMAIN table THEN Some(Product(pid)) ELSE None

\* cursor.execute(query, (pid,)); row = cursor.fetchone(); return product or None
ReadSelect(p) ==
    /\ p \in procs
    /\ call[p].fn = "read"
    /\ pc[p] = "execute"
    /\ \/ /\ ~Locked(p, call[p].pid)
          /\ ReturnValue(p, ReadResult(call[p].pid))
          /\ UNCHANGED faulted
       \/ /\ Raise(p)
          /\ UNCHANGED <<result, raised, sessions, pending, lastIdentity, conn>>
    /\ executed' = [executed EXCEPT ![p] = @ + 1]
    /\ UNCHANGED <<procs, table, nextIdentity, call, rowcount, pre,
                   acquired, inserted, acctVars>>

ReadExcept(p) ==
    /\ p \in procs
    /\ call[p].fn = "read"
    /\ ExceptReturn(p, None)
    /\ UNCHANGED acctVars

---------------------------------------------------------------------------
(* read_all_products(), crud.py:111-146 *)

ReadAllCall(p) ==
    /\ p \in procs
    /\ Begin(p, [NoCall EXCEPT !.fn = "readall"])
    /\ pc' = [pc EXCEPT ![p] = "connect"]
    /\ UNCHANGED acctVars

ReadAllConnect(p) ==
    /\ p \in procs
    /\ call[p].fn = "readall"
    /\ GetConnection(p)
    /\ UNCHANGED acctVars

\* cursor.execute("SELECT pid, pname, qty, price FROM PRODUCTS"); fetchall();
\* return the list of product dicts (rows taken in key order)
ReadAllSelect(p) ==
    /\ p \in procs
    /\ call[p].fn = "readall"
    /\ pc[p] = "execute"
    /\ \/ /\ ~AnyLocked(p)
          /\ ReturnValue(p, Some(Products(DOMAIN table)))
          /\ UNCHANGED faulted
       \/ /\ Raise(p)
          /\ UNCHANGED <<result, raised, sessions, pending, lastIdentity, conn>>
    /\ executed' = [executed EXCEPT ![p] = @ + 1]
    /\ UNCHANGED <<procs, table, nextIdentity, call, rowcount, pre,
                   acquired, inserted, acctVars>>

\* except Exception: return []
ReadAllExcept(p) ==
    /\ p \in procs
    /\ call[p].fn = "readall"
    /\ ExceptReturn(p, Some(<<>>))
    /\ UNCHANGED acctVars

---------------------------------------------------------------------------
(* update_product(pid, pname=None, qty=None, price=None), crud.py:149-206 *)

\* NoFieldGiven with the guard left out: the fault C5 is tested against
NoFieldNeverGiven(c) == FALSE

\* the guard of crud.py:164
NoFieldGiven(c) == ~AnyField(c)

\* conn = None; if not any([pname, qty, price]): return False
UpdateCall(p) ==
    /\ p \in procs
    /\ \E pid \in AskIds, n \in Opt(Names), q \in Opt(Quantities), pr \in Opt(Prices) :
          LET c == [fn |-> "update", pid |-> pid, pname |-> n, qty |-> q, price |-> pr]
          IN /\ Begin(p, c)
             /\ pc' = [pc EXCEPT ![p] = IF NoFieldGiven(c) THEN "usage" ELSE "connect"]
    /\ UNCHANGED acctVars

\* print("At least one field must be provided for update"); return False
\* (conn is still None, so the finally block closes nothing)
UpdateUsage(p) ==
    /\ p \in procs
    /\ call[p].fn = "update"
    /\ pc[p] = "usage"
    /\ ReturnValue(p, Some(FALSE))
    /\ UNCHANGED <<procs, table, nextIdentity, call, rowcount, pre,
                   acquired, executed, inserted, faulted,
                   acctVars>>

UpdateConnect(p) ==
    /\ p \in procs
    /\ call[p].fn = "update"
    /\ GetConnection(p)
    /\ UNCHANGED acctVars

\* cursor.rowcount of an UPDATE or DELETE ... WHERE pid = ?
RowCount(pid) == IF pid \in DOMAIN table THEN 1 ELSE 0

\* the UPDATE statement built at crud.py:171-187
UpdateStmt(c) == Stmt("update", c.pid, c)

\* the DELETE statement of crud.py:224
DeleteStmt(c) == Stmt("delete", c.pid, c)

\* cursor.execute of the UPDATE or DELETE statement st
Execute(p, st) ==
    /\ pc[p] = "execute"
    /\ \/ /\ ~Locked(p, st.pid)
          /\ pending' = [pending EXCEPT ![p] = st]
          /\ rowcount' = [rowcount EXCEPT ![p] = RowCount(st.pid)]
          /\ pc' = [pc EXCEPT ![p] = "commit"]
          /\ UNCHANGED faulted
       \/ /\ Raise(p)
          /\ UNCHANGED <<pending, rowcount>>
    /\ executed' = [executed EXCEPT ![p] = @ + 1]
    /\ UNCHANGED <<procs, table, nextIdentity, sessions, lastIdentity,
                   call, conn, result, raised, pre, acquired, inserted>>

\* conn.commit(); if cursor.rowcount > 0: return True  else: return False
CommitRowCount(p) ==
    /\ pc[p] = "commit"
    /\ \/ /\ table' = Committed(p)
          /\ ReturnValue(p, Some(rowcount[p] > 0))
          /\ UNCHANGED faulted
       \/ /\ Raise(p)
          /\ UNCHANGED <<table, result, raised, sessions, pending,
                         lastIdentity, conn>>
    /\ UNCHANGED <<procs, nextIdentity, call, rowcount, pre, acquired,
                   executed, inserted>>

UpdateExecute(p) ==
    /\ p \in procs
    /\ call[p].fn = "update"
    /\ Execute(p, UpdateStmt(call[p]))
    /\ UNCHANGED acctVars

UpdateCommit(p) ==
    /\ p \in procs
    /\ call[p].fn = "update"
    /\ CommitRowCount(p)
    /\ UNCHANGED acctVars

UpdateExcept(p) ==
    /\ p \in procs
    /\ call[p].fn = "update"
    /\ ExceptRollback(p, Some(FALSE))
    /\ UNCHANGED acctVars

---------------------------------------------------------------------------
(* delete_product(pid), crud.py:209-243 *)

DeleteCall(p) ==
    /\ p \in procs
    /\ \E pid \in AskIds : Begin(p, [NoCall EXCEPT !.fn = "delete", !.pid = pid])
    /\ pc' = [pc EXCEPT ![p] = "connect"]
    /\ UNCHANGED acctVars

DeleteConnect(p) ==
    /\ p \in procs
    /\ call[p].fn = "delete"
    /\ GetConnection(p)
    /\ UNCHANGED acctVars

DeleteExecute(p) ==
    /\ p \in procs
    /\ call[p].fn = "delete"
    /\ Execute(p, DeleteStmt(call[p]))
    /\ UNCHANGED acctVars

DeleteCommit(p) ==
    /\ p \in procs
    /\ call[p].fn = "delete"
    /\ CommitRowCount(p)
    /\ UNCHANGED acctVars

DeleteExcept(p) ==
    /\ p \in procs
    /\ call[p].fn = "delete"
    /\ ExceptRollback(p, Some(FALSE))
    /\ UNCHANGED acctVars

Returned(p) ==
    /\ p \in procs
    /\ Return(p)
    /\ UNCHANGED acctVars

---------------------------------------------------------------------------
(* class Account, account.py:4-26 *)

NoAcct == [op |-> "init", amount |-> 0, before |-> 0, raised |-> FALSE]

\* Account.deposit(amount)
Deposit(a) ==
    IF a <= 0
    THEN /\ acct' = [op |-> "deposit", amount |-> a, before |-> balance, raised |-> TRUE]
         /\ UNCHANGED balance
    ELSE /\ balance + a <= MaxBalance
         /\ balance' = balance + a
         /\ acct' = [op |-> "deposit", amount |-> a, before |-> balance, raised |-> FALSE]

\* CanWithdraw without the comparison with the balance: the fault C10 is
\* tested against
CanWithdrawAny(a) == a > 0

\* the guards of Account.withdraw
CanWithdraw(a) == a > 0 /\ a <= balance

\* Account.withdraw(amount)
Withdraw(a) ==
    /\ balance' = IF CanWithdraw(a) THEN balance - a ELSE balance
    /\ acct' = [op |-> "withdraw", amount |-> a, before |-> balance, raised |-> FALSE]

AccountDeposit == (\E a \in Amounts : Deposit(a)) /\ UNCHANGED crudVars
AccountWithdraw == (\E a \in Amounts : Withdraw(a)) /\ UNCHANGED crudVars

---------------------------------------------------------------------------
(* Specifications *)

\* the callers there can be; procs holds the ones a specification starts
Procs == {1, 2}

InitCrud(P) ==
    /\ procs = P
    /\ table = <<>>
    /\ nextIdentity = 1
    /\ sessions = {}
    /\ pending = [p \in P |-> NoPending]
    /\ lastIdentity = [p \in P |-> None]
    /\ pc = [p \in P |-> "idle"]
    /\ call = [p \in P |-> NoCall]
    /\ conn = [p \in P |-> "None"]
    /\ rowcount = [p \in P |-> 0]
    /\ result = [p \in P |-> None]
    /\ raised = [p \in P |-> FALSE]
    /\ pre = [p \in P |-> <<>>]
    /\ acquired = [p \in P |-> 0]
    /\ executed = [p \in P |-> 0]
    /\ inserted = [p \in P |-> 0]
    /\ faulted = [p \in P |-> FALSE]

NewAccount(b) ==
    /\ balance = b
    /\ acct = NoAcct

\* one caller, one call at a time
Init == InitCrud({1}) /\ NewAccount(0)

\* two callers whose calls overlap
InitConc == InitCrud({1, 2}) /\ NewAccount(0)

\* an Account constructed with a non-negative balance
InitAccount == InitCrud({1}) /\ \E b \in 0..MaxBalance : NewAccount(b)

Next ==
    \E p \in Procs :
        \/ CreateCall(p) \/ CreateConnect(p) \/ CreateInsert(p) \/ CreateCommit(p)
        \/ CreateIdentity(p) \/ CreateExcept(p)
        \/ ReadCall(p) \/ ReadConnect(p) \/ ReadSelect(p) \/ ReadExcept(p)
        \/ ReadAllCall(p) \/ ReadAllConnect(p) \/ ReadAllSelect(p) \/ ReadAllExcept(p)
        \/ UpdateCall(p) \/ UpdateUsage(p) \/ UpdateConnect(p) \/ UpdateExecute(p)
        \/ UpdateCommit(p) \/ UpdateExcept(p)
        \/ DeleteCall(p) \/ DeleteConnect(p) \/ DeleteExecute(p) \/ DeleteCommit(p)
        \/ DeleteExcept(p)
        \/ Returned(p)

NextConc ==
    \E p \in Procs :
        \/ CreateExample(p) \/ CreateConnect(p) \/ CreateInsert(p) \/ CreateCommit(p)
        \/ CreateIdentity(p) \/ CreateExcept(p)
        \/ Returned(p)

NextAccount == AccountDeposit \/ AccountWithdraw

Spec == Init /\ [][Next]_vars
SpecConc == InitConc /\ [][NextConc]_vars
SpecAccount == InitAccount /\ [][NextAccount]_vars

---------------------------------------------------------------------------
(* Properties *)

Done(p, fn) == pc[p] = "done" /\ call[p].fn = fn
Inputs(c) == Row(c.pname[1], c.qty[1], c.price[1])

\* C1: whenever create_product returns None, the committed contents of PRODUCTS
\* are what they were before the call (a failed create leaves no row).
C1_FailedCreateLeavesNoRow ==
    \A p \in procs :
        (Done(p, "create") /\ ~raised[p] /\ result[p] = None) => table = pre[p]

\* C2: an update_product call with at least one of pname, qty, price not None that
\* meets no store fault returns True if and only if a row with that pid existed
\* when it was called, whatever the values supplied (0 and "" included).
C2_UpdateTrueIffRowExists ==
    \A p \in procs :
        (Done(p, "update") /\ Supplied(call[p]) /\ ~faulted[p])
            => ((result[p] = Some(TRUE)) <=> (call[p].pid \in DOMAIN pre[p]))

\* C3: on every exit path of every function the connection the call acquired is
\* closed before the function returns: a caller that is between calls, or that has
\* the outcome of a call, holds no open connection; a call acquires at most one
\* connection, and it begins with none (no connection is carried over).
C3_ConnectionsClosed ==
    \A p \in procs :
        /\ (pc[p] \in {"idle", "done", "connect", "usage"})
              => (p \notin sessions /\ conn[p] # "open")
        /\ (p \in sessions) <=> (conn[p] = "open")
        /\ acquired[p] <= 1
        /\ (pc[p] = "done" /\ acquired[p] = 1) => conn[p] = "closed"

\* a call that acquired a connection, met a store fault, and has ended
C3_Witness ==
    \E p \in procs :
        pc[p] = "done" /\ faulted[p] /\ acquired[p] = 1 /\ conn[p] = "closed"

\* what each function returns when it fails
FailValue(fn) ==
    CASE fn \in {"create", "read"} -> None
      [] fn = "readall" -> Some(<<>>)
      [] OTHER -> Some(FALSE)

\* C4: no function raises to its caller: whatever driver call faults, create and
\* read return None, read_all returns [], update and delete return False.
C4_NeverRaises ==
    \A p \in procs :
        pc[p] = "done" =>
            /\ ~raised[p]
            /\ faulted[p] => result[p] = FailValue(call[p].fn)

\* C5: update_product with pname, qty and price all None returns False at once:
\* it acquires no connection, executes no statement, and the table is as before.
C5_UpdateNoFieldsTouchesNothing ==
    \A p \in procs :
        (call[p].fn = "update" /\ ~Supplied(call[p]) /\ pc[p] # "idle") =>
            /\ pc[p] \in {"usage", "done"}
            /\ conn[p] = "None" /\ p \notin sessions
            /\ acquired[p] = 0 /\ executed[p] = 0
            /\ table = pre[p]
            /\ pc[p] = "done" => (result[p] = Some(FALSE) /\ ~raised[p])

\* update_product(pid) with no field has returned, and the row pid exists
C5_Witness ==
    \E p \in procs :
        /\ Done(p, "update") /\ ~Supplied(call[p])
        /\ call[p].pid \in DOMAIN table

\* the value a column has after an update that was given v for it
After(v, old) == IF v # None THEN v[1] ELSE old

\* C6: an update_product call that returns True changes, in the row pid, exactly
\* the columns whose argument was supplied, to the values supplied; the other
\* columns of that row, the set of pids and every other row are as before; and
\* the same UPDATE applied once more leaves the table as it is.
C6_UpdateChangesSuppliedFields ==
    \A p \in procs :
        (Done(p, "update") /\ result[p] = Some(TRUE)) =>
            /\ call[p].pid \in DOMAIN pre[p]
            /\ DOMAIN table = DOMAIN pre[p]
            /\ \A i \in DOMAIN table \ {call[p].pid} : table[i] = pre[p][i]
            /\ table[call[p].pid].pname = After(call[p].pname, pre[p][call[p].pid].pname)
            /\ table[call[p].pid].qty = After(call[p].qty, pre[p][call[p].pid].qty)
            /\ table[call[p].pid].price = After(call[p].price, pre[p][call[p].pid].price)
            /\ Apply(table, UpdateStmt(call[p])) = table

\* a successful update of one row of two that changed it, with a column omitted
\* and a column set to zero
C6_Witness ==
    \E p \in procs :
        /\ Done(p, "update") /\ result[p] = Some(TRUE)
        /\ table # pre[p]
        /\ call[p].pname = None /\ call[p].qty = Some(0)
        /\ Cardinality(DOMAIN table) = 2

\* when create_product returns pid, the table holds the row pid with the inputs
CreateStoresInputs ==
    \A p \in procs :
        (Done(p, "create") /\ result[p] # None) =>
            /\ result[p][1] \in DOMAIN table
            /\ table[result[p][1]] = Inputs(call[p])

\* a row changes or goes only when an UPDATE or DELETE of its own pid commits
RowsKeep ==
    \A i \in DOMAIN table :
        \/ i \in DOMAIN table' /\ table'[i] = table[i]
        \/ \E p \in procs : /\ pc[p] = "commit"
                            /\ call[p].fn \in {"update", "delete"}
                            /\ call[p].pid = i

\* the dict of the row pid
Dict(pid) == [pid |-> pid, pname |-> table[pid].pname, qty |-> table[pid].qty,
              price |-> table[pid].price]

\* read_product(pid) yields the row the table holds under pid
ReadYieldsRow ==
    \A p \in procs :
        (Done(p, "read") /\ call[p].pid \in DOMAIN table)
            => result[p] = Some(Dict(call[p].pid))

ReadYieldsRowUnlessFault ==
    \A p \in procs :
        (Done(p, "read") /\ call[p].pid \in DOMAIN table /\ ~faulted[p])
            => result[p] = Some(Dict(call[p].pid))

C8_ConcurrentCreatesOwnIdentity ==
    \A p \in procs :
        (Done(p, "create") /\ result[p] # None) =>
            /\ result[p] = Some(inserted[p])
            /\ result[p][1] \in DOMAIN table => table[result[p][1]] = Inputs(call[p])
            /\ \A q \in procs \ {p} :
                  /\ inserted[q] # result[p][1]
                  /\ (Done(q, "create") /\ result[q] # None) => result[q] # result[p]

\* two creates of different products that ran at once have both returned, the
\* second caller having inserted first
C8_Witness ==
    /\ procs = {1, 2}
    /\ Done(1, "create") /\ Done(2, "create")
    /\ result[1] = Some(2) /\ result[2] = Some(1)
    /\ call[1].pname # call[2].pname

\* delete_product returned True: the row is gone
DeleteRemoves ==
    \A p \in procs :
        (Done(p, "delete") /\ result[p] = Some(TRUE)) => call[p].pid \notin DOMAIN table

\* read_product of a pid that has no row yields None
GoneReadsNone ==
    \A p \in procs :
        (Done(p, "read") /\ call[p].pid \notin DOMAIN table)
            => (result[p] = None /\ ~raised[p])

\* delete_product of a pid that has no row (a second delete among them) returns
\* False, without raising, and leaves the table as it is
DeleteOfNoRow ==
    \A p \in procs :
        (Done(p, "delete") /\ call[p].pid \notin DOMAIN pre[p])
            => (~raised[p] /\ result[p] = Some(FALSE) /\ table = pre[p])

\* a pid gets a row only when a create commits its insert
GoneStaysGone ==
    \A i \in Ids :
        (i \notin DOMAIN table /\ i \in DOMAIN table')
            => \E p \in procs : /\ pc[p] = "commit" /\ call[p].fn = "create"
                                /\ pending[p].pid = i

\* C9: after delete_product(pid) returns True, read_product(pid) yields None and a
\* second delete_product(pid) returns False without raising, for as long as no
\* create makes a row with that pid; delete_product of a pid without a row returns
\* False and leaves the table unchanged.
C9_DeletedStaysDeleted ==
    [](DeleteRemoves /\ GoneReadsNone /\ DeleteOfNoRow) /\ [][GoneStaysGone]_vars

\* C10: an Account constructed with a non-negative balance keeps a non-negative
\* balance: deposit of amount <= 0 raises and leaves the balance, withdraw of
\* amount <= 0 or of more than the balance leaves the balance, and otherwise the
\* balance changes by exactly the amount.
C10_BalanceNonNegative ==
    /\ balance >= 0
    /\ acct.op = "deposit" =>
          IF acct.amount <= 0
          THEN acct.raised /\ balance = acct.before
          ELSE ~acct.raised /\ balance = acct.before + acct.amount
    /\ acct.op = "withdraw" =>
          /\ ~acct.raised
          /\ IF acct.amount <= 0 \/ acct.amount > acct.before
             THEN balance = acct.before
             ELSE balance = acct.before - acct.amount

\* a withdrawal of more than the balance has been refused
C10_Witness ==
    /\ acct.op = "withdraw"
    /\ acct.amount > acct.before
    /\ acct.before > 0
    /\ balance = acct.before

====
